---- MODULE Spec2Model ----
(***************************************************************************)
(* Tax calculators of the repository: us_tax.py (US federal, California,   *)
(* FICA, SDI, capital gains) and cn_tax.py (CN individual income tax and   *)
(* social insurance).                                                      *)
(*                                                                         *)
(* Numbers.  The code computes in floating point; the model computes the   *)
(* same expressions exactly, in integers.  Incomes, salaries, deductions   *)
(* and bracket bounds are whole currency units.  Every rate of the code    *)
(* is a multiple of 0.0005, so a rate is the integer rate * RATE_DEN and   *)
(* an amount "income * rate" is an integer count of 1/RATE_DEN currency    *)
(* units.  The unit of every amount is stated where it is defined.         *)
(***************************************************************************)
EXTENDS Integers, Sequences, FiniteSets, TLC

VARIABLES pc, fn, input, result

vars == <<pc, fn, input, result>>

Min(a, b) == IF a <= b THEN a ELSE b

Max(a, b) == IF a >= b THEN a ELSE b

\* float('inf'): larger than every amount the model computes with.
INF == 2000000000

\* Denominator of the rates: 0.10 is 200, 0.0145 is 29, 0.005 is 10.
RATE_DEN == 2000

\* A value returned / an exception raised by a function of the code.
Ok(v) == [err |-> "ok", val |-> v]

Raise(e) == [err |-> e]

(***************************************************************************)
(* us_tax.py                                                               *)
(***************************************************************************)
TaxBracket(lower, upper, rate) == [lower |-> lower, upper |-> upper, rate |-> rate]

MAX_401K == 23000

SS_LIMIT == 168600

SDI_LIMIT == 153164

MEDICARE_THRESHOLD == 200000

\* Rates in 1/RATE_DEN.
FEDERAL_BRACKETS ==
  [single |-> << TaxBracket(0, 11600, 200),
                 TaxBracket(11600, 47150, 240),
                 TaxBracket(47150, 100525, 440),
                 TaxBracket(100525, 191950, 480),
                 TaxBracket(191950, 243725, 640),
                 TaxBracket(243725, 609350, 700),
                 TaxBracket(609350, INF, 740) >>,
   married |-> << TaxBracket(0, 23200, 200),
                  TaxBracket(23200, 94300, 240),
                  TaxBracket(94300, 201050, 440),
                  TaxBracket(201050, 383900, 480),
                  TaxBracket(383900, 487450, 640),
                  TaxBracket(487450, 731200, 700),
                  TaxBracket(731200, INF, 740) >>]

CA_BRACKETS ==
  [single |-> << TaxBracket(0, 10412, 20),
                 TaxBracket(10412, 24684, 40),
                 TaxBracket(24684, 38959, 80),
                 TaxBracket(38959, 54081, 120),
                 TaxBracket(54081, 68350, 160),
                 TaxBracket(68350, 349137, 186),
                 TaxBracket(349137, 418961, 206),
                 TaxBracket(418961, 698272, 226),
                 TaxBracket(698272, INF, 246) >>,
   married |-> << TaxBracket(0, 20824, 20),
                  TaxBracket(20824, 49368, 40),
                  TaxBracket(49368, 77918, 80),
                  TaxBracket(77918, 108162, 120),
                  TaxBracket(108162, 136700, 160),
                  TaxBracket(136700, 698274, 186),
                  TaxBracket(698274, 837922, 206),
                  TaxBracket(837922, 1396544, 226),
                  TaxBracket(1396544, INF, 246) >>]

\* Mutant of STANDARD_DEDUCTION: the two amounts are exchanged.
STANDARD_DEDUCTION_Swapped == [single |-> 29200, married |-> 14600]

STANDARD_DEDUCTION == [single |-> 14600, married |-> 29200]

\* Mutant of CA_STANDARD_DEDUCTION: the two amounts are exchanged.
CA_STANDARD_DEDUCTION_Swapped == [single |-> 10726, married |-> 5363]

CA_STANDARD_DEDUCTION == [single |-> 5363, married |-> 10726]

\* The brackets of calculate_capital_gains_tax.
CAPITAL_GAINS_BRACKETS ==
  [single |-> << TaxBracket(0, 44625, 0),
                 TaxBracket(44625, 492300, 300),
                 TaxBracket(492300, INF, 400) >>,
   married |-> << TaxBracket(0, 89250, 0),
                  TaxBracket(89250, 553850, 300),
                  TaxBracket(553850, INF, 400) >>]

\* bracket.upper - bracket.lower, in 1/unit: float('inf') less a number, or
\* times one, is float('inf').
BracketWidth(bracket, unit) ==
  IF bracket.upper = INF THEN INF ELSE (bracket.upper - bracket.lower) * unit

\* Mutant of TaxableAmount: the bracket's upper bound taken for its width.
TaxableAmount_UpperForWidth(remaining_income, bracket) ==
  Min(remaining_income, bracket.upper)

\* The amount one bracket takes of what remains (us_tax.py line 112).
TaxableAmount(remaining_income, bracket) ==
  Min(remaining_income, BracketWidth(bracket, 1))

\* Mutant of BracketLoop: the taxed amount is not taken off remaining_income.
RECURSIVE BracketLoop_NoSubtract(_, _, _, _)
BracketLoop_NoSubtract(brackets, i, remaining_income, total_tax) ==
  IF i > Len(brackets) \/ remaining_income <= 0
  THEN total_tax
  ELSE LET taxable_amount == TaxableAmount(remaining_income, brackets[i])
       IN  BracketLoop_NoSubtract(brackets, i + 1, remaining_income,
                                  total_tax + taxable_amount * brackets[i].rate)

\* The loop of calculate_federal_tax and calculate_ca_state_tax, from bracket i
\* on: the tax in 1/RATE_DEN.
RECURSIVE BracketLoop(_, _, _, _)
BracketLoop(brackets, i, remaining_income, total_tax) ==
  IF i > Len(brackets) \/ remaining_income <= 0
  THEN total_tax
  ELSE LET taxable_amount == TaxableAmount(remaining_income, brackets[i])
       IN  BracketLoop(brackets, i + 1, remaining_income - taxable_amount,
                       total_tax + taxable_amount * brackets[i].rate)

\* Mutant of TaxableIncome: the standard deduction is not taken off.
TaxableIncome_NoDeduction(income, standard_deduction) == Max(0, income)

\* max(0, income - standard_deduction)
TaxableIncome(income, standard_deduction) == Max(0, income - standard_deduction)

calculate_federal_tax(income, filing_status) ==
  IF filing_status \notin DOMAIN STANDARD_DEDUCTION
  THEN Raise("KeyError")
  ELSE LET taxable_income == TaxableIncome(income, STANDARD_DEDUCTION[filing_status])
       IN  Ok(BracketLoop(FEDERAL_BRACKETS[filing_status], 1, taxable_income, 0))

calculate_ca_state_tax(income, capital_gains, filing_status) ==
  IF filing_status \notin DOMAIN CA_STANDARD_DEDUCTION
  THEN Raise("KeyError")
  ELSE LET taxable_income ==
             TaxableIncome(income + capital_gains, CA_STANDARD_DEDUCTION[filing_status])
       IN  Ok(BracketLoop(CA_BRACKETS[filing_status], 1, taxable_income, 0))

\* Mutant of CappedTax: the limit is not applied.
CappedTax_NoLimit(income, limit, rate) == income * rate

\* min(income, limit) * rate: the social-security tax and the SDI.
CappedTax(income, limit, rate) == Min(income, limit) * rate

\* Mutant of AdditionalMedicare: the threshold is not taken off the income.
AdditionalMedicare_WholeIncome(income) ==
  IF income > MEDICARE_THRESHOLD THEN income * 18 ELSE 0

\* additional_medicare of calculate_fica_taxes (us_tax.py line 140).
AdditionalMedicare(income) ==
  IF income > MEDICARE_THRESHOLD THEN (income - MEDICARE_THRESHOLD) * 18 ELSE 0

\* Amounts in 1/RATE_DEN: 0.062 is 124, 0.0145 is 29, 0.009 is 18.
calculate_fica_taxes(income) ==
  LET ss_tax == CappedTax(income, SS_LIMIT, 124)
      medicare_tax == income * 29
      additional_medicare == AdditionalMedicare(income)
  IN  Ok([social_security |-> ss_tax,
          medicare |-> medicare_tax,
          additional_medicare |-> additional_medicare,
          total |-> ss_tax + medicare_tax + additional_medicare])

calculate_ca_sdi(income) == Ok(CappedTax(income, SDI_LIMIT, 18))

\* Whether the lookups of the marginal rate and of the capital-gains rate take
\* bracket b for the income: lower <= income <= upper.
InBracket(b, income) == b.lower <= income /\ income <= b.upper

\* The rate of the first bracket holding the income, or the default when none
\* does (for ... if ...: rate = bracket.rate; break).
FirstBracketRate(brackets, income, default) ==
  LET hits == {i \in 1..Len(brackets) : InBracket(brackets[i], income)}
  IN  IF hits = {} THEN default
      ELSE brackets[CHOOSE i \in hits : \A j \in hits : i <= j].rate

\* Mutant of calculate_capital_gains_tax: a status without brackets falls
\* through to the final rate instead of failing.
calculate_capital_gains_tax_Default(capital_gains, income, filing_status) ==
  IF filing_status \notin DOMAIN CAPITAL_GAINS_BRACKETS
  THEN Ok(capital_gains * 400)
  ELSE Ok(capital_gains
          * FirstBracketRate(CAPITAL_GAINS_BRACKETS[filing_status],
                             income + capital_gains, 400))

calculate_capital_gains_tax(capital_gains, income, filing_status) ==
  IF filing_status \notin DOMAIN CAPITAL_GAINS_BRACKETS
  THEN Raise("KeyError")
  ELSE LET total_income == income + capital_gains
       IN  Ok(capital_gains
              * FirstBracketRate(CAPITAL_GAINS_BRACKETS[filing_status], total_income, 400))

\* The social-security part of the marginal FICA rate (us_tax.py lines 192-193).
SSMarginalRate(income) == IF income <= SS_LIMIT THEN 124 ELSE 0

\* The marginal SDI rate (us_tax.py line 198).
SDIMarginalRate(income) == IF income <= SDI_LIMIT THEN 18 ELSE 0

\* Mutant of TotalRate: the SDI rate is left out of the total.
TotalRate_NoSdi(federal_rate, ca_rate, fica_rate, sdi_rate) ==
  federal_rate + ca_rate + fica_rate

\* total_rate of us_tax.calculate_marginal_rates (line 199).
TotalRate(federal_rate, ca_rate, fica_rate, sdi_rate) ==
  federal_rate + ca_rate + fica_rate + sdi_rate

\* us_tax.calculate_marginal_rates: rates in 1/RATE_DEN.
calculate_marginal_rates(income, filing_status) ==
  IF filing_status \notin DOMAIN FEDERAL_BRACKETS
  THEN Raise("KeyError")
  ELSE LET federal_rate == FirstBracketRate(FEDERAL_BRACKETS[filing_status], income, 0)
           ca_rate == FirstBracketRate(CA_BRACKETS[filing_status], income, 0)
           fica_rate == 29 + SSMarginalRate(income)
                        + (IF income > MEDICARE_THRESHOLD THEN 18 ELSE 0)
           sdi_rate == SDIMarginalRate(income)
       IN  Ok([federal |-> federal_rate,
               california |-> ca_rate,
               fica |-> fica_rate,
               sdi |-> sdi_rate,
               total |-> TotalRate(federal_rate, ca_rate, fica_rate, sdi_rate)])

\* The amount units - fine / den, kept exactly as whole + frac / den with
\* 0 <= frac < den (units in whole currency units, fine in 1/den).
MoneyMinus(units, fine, den) ==
  [whole |-> units + ((0 - fine) \div den), frac |-> (0 - fine) % den]

\* Mutant of TotalTax: the SDI tax is left out of the total.
TotalTax_NoSdi(federal_tax, capital_gains_tax, ca_tax, fica_total, sdi_tax) ==
  federal_tax + capital_gains_tax + ca_tax + fica_total

\* total_tax of calculate_tax_results (us_tax.py lines 252-253), in 1/RATE_DEN.
TotalTax(federal_tax, capital_gains_tax, ca_tax, fica_total, sdi_tax) ==
  federal_tax + capital_gains_tax + ca_tax + fica_total + sdi_tax

\* Mutant of NetIncome: the 401(k) contribution is not taken off.
NetIncome_Keep401k(total_income, total_tax, actual_401k) ==
  MoneyMinus(total_income, total_tax, RATE_DEN)

\* net_income of calculate_tax_results (us_tax.py line 255): total_income in
\* dollars, total_tax in 1/RATE_DEN.
NetIncome(total_income, total_tax, actual_401k) ==
  MoneyMinus(total_income - actual_401k, total_tax, RATE_DEN)

\* One TaxResult of calculate_tax_results (the body of its loop).  Taxes in
\* 1/RATE_DEN; net_income as MoneyMinus gives it, in 1/RATE_DEN.
TaxResultFor(annual_income, capital_gains, actual_401k, status) ==
  LET adjusted_income == annual_income - actual_401k
      federal_tax == calculate_federal_tax(adjusted_income, status).val
      capital_gains_tax ==
        calculate_capital_gains_tax(capital_gains, adjusted_income, status).val
      fica_taxes == calculate_fica_taxes(annual_income).val
      ca_tax == calculate_ca_state_tax(adjusted_income, capital_gains, status).val
      sdi_tax == calculate_ca_sdi(annual_income).val
      total_tax == TotalTax(federal_tax, capital_gains_tax, ca_tax, fica_taxes.total, sdi_tax)
      total_income == annual_income + capital_gains
      net_income == NetIncome(total_income, total_tax, actual_401k)
      marginal_rates == calculate_marginal_rates(adjusted_income, status).val
  IN  [federal_tax |-> federal_tax,
       capital_gains_tax |-> capital_gains_tax,
       ca_tax |-> ca_tax,
       fica_taxes |-> fica_taxes,
       sdi_tax |-> sdi_tax,
       total_tax |-> total_tax,
       net_income |-> net_income,
       marginal_rates |-> marginal_rates]

calculate_tax_results(annual_income, capital_gains, actual_401k) ==
  Ok([status \in {"single", "married"} |->
        TaxResultFor(annual_income, capital_gains, actual_401k, status)])

(***************************************************************************)
(* cn_tax.py                                                               *)
(***************************************************************************)
TAX_FREE_THRESHOLD == 5000

\* Denominator of the rates of TAX_BRACKETS: 0.03 is 3.
CN_RATE_DEN == 100

\* Mutant of TAX_BRACKETS: the second bracket starts one yuan after the first
\* one ends.
TAX_BRACKETS_Gap ==
  << TaxBracket(0, 36000, 3),
     TaxBracket(36001, 144000, 10),
     TaxBracket(144000, 300000, 20),
     TaxBracket(300000, 420000, 25),
     TaxBracket(420000, 660000, 30),
     TaxBracket(660000, 960000, 35),
     TaxBracket(960000, INF, 45) >>

\* Annual brackets, rates in 1/CN_RATE_DEN.
TAX_BRACKETS ==
  << TaxBracket(0, 36000, 3),
     TaxBracket(36000, 144000, 10),
     TaxBracket(144000, 300000, 20),
     TaxBracket(300000, 420000, 25),
     TaxBracket(420000, 660000, 30),
     TaxBracket(660000, 960000, 35),
     TaxBracket(960000, INF, 45) >>

SOCIAL_INSURANCE_BASE_MIN == 3613

SOCIAL_INSURANCE_BASE_MAX == 31884

HOUSING_FUND_BASE_MIN == 3613

HOUSING_FUND_BASE_MAX == 31884

\* Rates in 1/RATE_DEN.
PENSION_RATE == 160

MEDICAL_RATE == 40

UNEMPLOYMENT_RATE == 10

INJURY_RATE == 0

MATERNITY_RATE == 0

HOUSING_FUND_RATE == 240

EMPLOYER_PENSION_RATE == 320

EMPLOYER_MEDICAL_RATE == 190

EMPLOYER_UNEMPLOYMENT_RATE == 10

EMPLOYER_INJURY_RATE == 8

EMPLOYER_MATERNITY_RATE == 16

EMPLOYER_HOUSING_FUND_RATE == 240

\* SpecialDeductions(): every field defaults to 0.
SpecialDeductions ==
  [housing_rent |-> 0, housing_loan |-> 0, children_edu |-> 0,
   continuing_edu |-> 0, elderly_care |-> 0, medical_expense |-> 0]

\* Mutant of InsuranceBase: the floor is not applied.
InsuranceBase_NoFloor(monthly_salary) ==
  Min(monthly_salary, SOCIAL_INSURANCE_BASE_MAX)

\* The base of the contributions (cn_tax.py lines 89-90).
InsuranceBase(monthly_salary) ==
  Min(Max(monthly_salary, SOCIAL_INSURANCE_BASE_MIN), SOCIAL_INSURANCE_BASE_MAX)

\* Amounts in 1/RATE_DEN yuan; base in yuan.
calculate_social_insurance(monthly_salary) ==
  LET base == InsuranceBase(monthly_salary)
      pension == base * PENSION_RATE
      medical == base * MEDICAL_RATE
      unemployment == base * UNEMPLOYMENT_RATE
      housing_fund == base * HOUSING_FUND_RATE
      employer_pension == base * EMPLOYER_PENSION_RATE
      employer_medical == base * EMPLOYER_MEDICAL_RATE
      employer_unemployment == base * EMPLOYER_UNEMPLOYMENT_RATE
      employer_injury == base * EMPLOYER_INJURY_RATE
      employer_maternity == base * EMPLOYER_MATERNITY_RATE
      employer_housing_fund == base * EMPLOYER_HOUSING_FUND_RATE
      personal_total == pension + medical + unemployment + housing_fund
      employer_total == employer_pension + employer_medical + employer_unemployment
                        + employer_injury + employer_maternity + employer_housing_fund
  IN  Ok([personal |-> [pension |-> pension,
                        medical |-> medical,
                        unemployment |-> unemployment,
                        housing_fund |-> housing_fund,
                        total |-> personal_total],
          employer |-> [pension |-> employer_pension,
                        medical |-> employer_medical,
                        unemployment |-> employer_unemployment,
                        injury |-> employer_injury,
                        maternity |-> employer_maternity,
                        housing_fund |-> employer_housing_fund,
                        total |-> employer_total],
          base |-> base])

\* The marginal rates of the capped contributions (cn_tax.py lines 142-151).
InsuranceMarginalRate(monthly_salary) ==
  IF monthly_salary <= SOCIAL_INSURANCE_BASE_MAX
  THEN PENSION_RATE + MEDICAL_RATE + UNEMPLOYMENT_RATE
  ELSE 0

HousingFundMarginalRate(monthly_salary) ==
  IF monthly_salary <= HOUSING_FUND_BASE_MAX THEN HOUSING_FUND_RATE ELSE 0

\* cn_tax.calculate_marginal_rates: rates in 1/RATE_DEN.
cn_calculate_marginal_rates(monthly_salary) ==
  LET annual_income == monthly_salary * 12
      tax_rate == FirstBracketRate(TAX_BRACKETS, annual_income, 0)
                  * (RATE_DEN \div CN_RATE_DEN)
      insurance_rate == InsuranceMarginalRate(monthly_salary)
      housing_fund_rate == HousingFundMarginalRate(monthly_salary)
  IN  Ok([tax |-> tax_rate,
          insurance |-> insurance_rate,
          housing_fund |-> housing_fund_rate,
          total |-> tax_rate + insurance_rate + housing_fund_rate])

\* Mutant of TaxPart: the part is not limited to the width of the bracket.
TaxPart_NoWidth(annual_taxable, bracket, unit) ==
  IF annual_taxable > bracket.lower * unit
  THEN (annual_taxable - bracket.lower * unit) * bracket.rate
  ELSE 0

\* What one bracket adds to the tax (cn_tax.py lines 188-189), for amounts in
\* 1/unit yuan: in 1/(unit * CN_RATE_DEN) yuan.
TaxPart(annual_taxable, bracket, unit) ==
  IF annual_taxable > bracket.lower * unit
  THEN Min(annual_taxable - bracket.lower * unit, BracketWidth(bracket, unit))
       * bracket.rate
  ELSE 0

\* The loop of calculate_tax over TAX_BRACKETS, from bracket i on.
RECURSIVE TaxLoop(_, _, _, _)
TaxLoop(i, annual_taxable, unit, tax) ==
  IF i > Len(TAX_BRACKETS) THEN tax
  ELSE TaxLoop(i + 1, annual_taxable, unit,
               tax + TaxPart(annual_taxable, TAX_BRACKETS[i], unit))

\* The tax of lines 184-190 on the annual taxable amount (in 1/unit yuan; the
\* guard taxable_income > 0 is the guard annual_taxable > 0): in
\* 1/(unit * CN_RATE_DEN) yuan.
IncomeTax(annual_taxable, unit) ==
  IF annual_taxable > 0 THEN TaxLoop(1, annual_taxable, unit, 0) ELSE 0

\* SpecialDeductionLimits (cn_tax.py lines 54-74), in yuan per month.  The city
\* names of the source are Chinese; they are written here in pinyin.
RENT_TIER_1 == 2000
RENT_TIER_2 == 1500
RENT_TIER_3 == 1100
HOUSING_LOAN == 1000
CHILDREN_EDU == 1000
CONTINUING_EDU == 400
ELDERLY_CARE == 2000

TIER_1_CITIES == {"Beijing", "Shanghai", "Guangzhou", "Shenzhen"}

TIER_2_CITIES ==
  {"Tianjin", "Chongqing", "Nanjing", "Hangzhou", "Wuhan", "Chengdu", "Xian",
   "Jinan", "Changchun", "Haerbin", "Shenyang", "Nanning", "Kunming", "Hefei",
   "Zhengzhou", "Fuzhou", "Nanchang", "Changsha", "Guiyang", "Lanzhou", "Xining",
   "Huhehaote", "Wulumuqi", "Lasa", "Yinchuan", "Shijiazhuang",
   "Dalian", "Qingdao", "Ningbo", "Xiamen", "Shenzhen"}

get_rent_deduction_limit(city) ==
  IF city \in TIER_1_CITIES THEN RENT_TIER_1
  ELSE IF city \in TIER_2_CITIES THEN RENT_TIER_2
  ELSE RENT_TIER_3

\* Denominator of the amounts of calculate_tax: the personal contributions are
\* base * 0.225, a multiple of 1/40 yuan.
CN_UNIT == 40

\* Mutant of SpecialDeductionsTotal: the medical expense is left out of the sum.
SpecialDeductionsTotal_NoMedical(deductions) ==
  deductions.housing_rent + deductions.housing_loan + deductions.children_edu
  + deductions.continuing_edu + deductions.elderly_care

\* The sum of the six deductions (cn_tax.py lines 168-175), in yuan.
SpecialDeductionsTotal(deductions) ==
  deductions.housing_rent + deductions.housing_loan + deductions.children_edu
  + deductions.continuing_edu + deductions.elderly_care + deductions.medical_expense

\* Mutant of AnnualTaxable: the monthly amount is taken to the annual table.
AnnualTaxable_Monthly(taxable_income) == taxable_income

\* annual_taxable of calculate_tax (cn_tax.py line 186).
AnnualTaxable(taxable_income) == taxable_income * 12

\* The SpecialDeductions that main builds from the amounts typed in (cn_tax.py
\* lines 312-322): only the rent is limited.
MainDeductions(city, typed) ==
  [typed EXCEPT !.housing_rent = Min(typed.housing_rent, get_rent_deduction_limit(city))]

\* Units: gross_salary and special_deductions in yuan, insurance as
\* calculate_social_insurance gives it, taxable_income in 1/CN_UNIT yuan,
\* tax (the monthly tax: the annual tax / 12) and net_income in
\* 1/(12 * CN_UNIT * CN_RATE_DEN) yuan.
calculate_tax(monthly_salary, deductions) ==
  LET insurance == calculate_social_insurance(monthly_salary).val
      special_deductions == SpecialDeductionsTotal(deductions)
      personal_total == insurance.personal.total \div (RATE_DEN \div CN_UNIT)
      taxable_income ==
        (monthly_salary - TAX_FREE_THRESHOLD - special_deductions) * CN_UNIT
        - personal_total
      tax == IncomeTax(AnnualTaxable(taxable_income), CN_UNIT)
      monthly_tax == tax
      net_income ==
        MoneyMinus(monthly_salary, monthly_tax + personal_total * 12 * CN_RATE_DEN,
                   12 * CN_UNIT * CN_RATE_DEN)
  IN  Ok([gross_salary |-> monthly_salary,
          insurance |-> insurance,
          special_deductions |-> special_deductions,
          taxable_income |-> taxable_income,
          tax |-> monthly_tax,
          net_income |-> net_income])

(***************************************************************************)
(* The inputs.                                                             *)
(***************************************************************************)
\* Every critical amount is taken with its neighbours at distance <= Delta.
Delta == 1

\* A coarse grid of incomes, 0, GridStep, ..., GridCount * GridStep.
GridStep == 75011

GridCount == 20

Around(points) == {p + d : p \in points, d \in -Delta..Delta}

\* The boundaries between the brackets of a table.
Boundaries(brackets) == {brackets[i].upper : i \in 1..(Len(brackets) - 1)}

FilingStatuses == {"single", "married"}

\* The filing statuses a caller may pass: the two the tables have and one they
\* do not.
StatusInputs == FilingStatuses \cup {"head_of_household"}

CapitalGainsInputs == {0, 50000}

USCritical ==
  {0, MAX_401K, SS_LIMIT, SDI_LIMIT, MEDICARE_THRESHOLD, 60000}
  \cup UNION {Boundaries(FEDERAL_BRACKETS[s]) \cup Boundaries(CA_BRACKETS[s])
              \cup Boundaries(CAPITAL_GAINS_BRACKETS[s])
              \cup {STANDARD_DEDUCTION[s], CA_STANDARD_DEDUCTION[s]}
              \cup {b + STANDARD_DEDUCTION[s] : b \in Boundaries(FEDERAL_BRACKETS[s])}
              \cup {b + CA_STANDARD_DEDUCTION[s] : b \in Boundaries(CA_BRACKETS[s])}
              \cup {b - g : b \in Boundaries(CAPITAL_GAINS_BRACKETS[s]),
                            g \in CapitalGainsInputs}
              : s \in FilingStatuses}

USIncomes == Around(USCritical) \cup {k * GridStep : k \in 0..GridCount}

\* print_comparison_tables: min(annual_income, MAX_401K) if maximize_401k else 0.
Actual401k(annual_income, maximize_401k) ==
  IF maximize_401k THEN Min(annual_income, MAX_401K) ELSE 0

CNCritical ==
  {0, SOCIAL_INSURANCE_BASE_MIN, SOCIAL_INSURANCE_BASE_MAX, TAX_FREE_THRESHOLD,
   20000, 100000}
  \cup {b \div 12 : b \in Boundaries(TAX_BRACKETS)}

CNSalaries == Around(CNCritical) \cup {k * (GridStep \div 10) : k \in 0..(GridCount \div 2)}

\* The deductions a caller may pass: none, the standard amounts, one that
\* exceeds the salary, negative ones, and amounts above the configured limits.
DeductionInputs ==
  { SpecialDeductions,
    [SpecialDeductions EXCEPT !.housing_rent = 1500, !.housing_loan = 1000,
                              !.children_edu = 1000, !.continuing_edu = 400,
                              !.elderly_care = 2000],
    [SpecialDeductions EXCEPT !.medical_expense = 80000],
    [SpecialDeductions EXCEPT !.housing_loan = -1000],
    [SpecialDeductions EXCEPT !.housing_rent = 1500, !.medical_expense = -3000],
    [SpecialDeductions EXCEPT !.housing_rent = 2500, !.housing_loan = 8000] }

\* Annual taxable amounts for the bracket loop of calculate_tax, in yuan.
CNAnnualAmounts ==
  Around({0} \cup Boundaries(TAX_BRACKETS)) \cup {k * GridStep : k \in 0..GridCount}

NoInput ==
  [prog |-> "none", income |-> 0, capital_gains |-> 0, maximize_401k |-> FALSE,
   filing_status |-> "single", monthly_salary |-> 0,
   deductions |-> SpecialDeductions, annual_taxable |-> 0, city |-> ""]

USInputs ==
  {[NoInput EXCEPT !.prog = "us_tax", !.income = i, !.capital_gains = g,
                   !.maximize_401k = k, !.filing_status = s] :
     i \in USIncomes, g \in CapitalGainsInputs, k \in BOOLEAN, s \in StatusInputs}

\* Inputs of the bracket loops of calculate_federal_tax and
\* calculate_ca_state_tax, followed one iteration at a time.
USLoopInputs ==
  {[NoInput EXCEPT !.prog = p, !.income = i, !.capital_gains = g,
                   !.filing_status = s] :
     p \in {"us_federal_loop", "us_ca_loop"}, i \in USIncomes,
     g \in CapitalGainsInputs, s \in FilingStatuses}

CNInputs ==
  {[NoInput EXCEPT !.prog = "cn_tax", !.monthly_salary = m, !.deductions = d] :
     m \in CNSalaries, d \in DeductionInputs}

\* A first-tier city, a second-tier city, the city of both lists, another city.
CityInputs == {"Beijing", "Hangzhou", "Shenzhen", "Suzhou"}

CNMainInputs ==
  {[NoInput EXCEPT !.prog = "cn_main", !.monthly_salary = m, !.deductions = d,
                   !.city = c] :
     m \in CNCritical, d \in DeductionInputs, c \in CityInputs}

CNLoopInputs ==
  {[NoInput EXCEPT !.prog = "cn_tax_loop", !.annual_taxable = a] : a \in CNAnnualAmounts}

(***************************************************************************)
(* The state machine: an input is drawn, then one function of the code is  *)
(* called on it.                                                           *)
(***************************************************************************)
Init ==
  /\ pc = "start"
  /\ fn = "none"
  /\ input \in USInputs \cup CNInputs \cup CNLoopInputs \cup CNMainInputs
               \cup USLoopInputs
  /\ result = [err |-> "none"]

Call(prog, name, res) ==
  /\ pc = "start"
  /\ input.prog = prog
  /\ pc' = "done"
  /\ fn' = name
  /\ result' = res
  /\ UNCHANGED input

CalculateFederalTax ==
  Call("us_tax", "calculate_federal_tax",
       calculate_federal_tax(input.income, input.filing_status))

CalculateCaStateTax ==
  Call("us_tax", "calculate_ca_state_tax",
       calculate_ca_state_tax(input.income, input.capital_gains, input.filing_status))

CalculateFicaTaxes ==
  Call("us_tax", "calculate_fica_taxes", calculate_fica_taxes(input.income))

CalculateCaSdi ==
  Call("us_tax", "calculate_ca_sdi", calculate_ca_sdi(input.income))

CalculateCapitalGainsTax ==
  Call("us_tax", "calculate_capital_gains_tax",
       calculate_capital_gains_tax(input.capital_gains, input.income, input.filing_status))

CalculateMarginalRates ==
  Call("us_tax", "calculate_marginal_rates",
       calculate_marginal_rates(input.income, input.filing_status))

\* The 401(k) amount is the one print_comparison_tables passes.
CalculateTaxResults ==
  Call("us_tax", "calculate_tax_results",
       calculate_tax_results(input.income, input.capital_gains,
                             Actual401k(input.income, input.maximize_401k)))

CalculateSocialInsurance ==
  Call("cn_tax", "calculate_social_insurance",
       calculate_social_insurance(input.monthly_salary))

CnCalculateMarginalRates ==
  Call("cn_tax", "cn_calculate_marginal_rates",
       cn_calculate_marginal_rates(input.monthly_salary))

CalculateTax ==
  Call("cn_tax", "calculate_tax", calculate_tax(input.monthly_salary, input.deductions))

\* The bracket loop of calculate_tax on an annual taxable amount in yuan.
CalculateIncomeTax ==
  Call("cn_tax_loop", "IncomeTax", Ok(IncomeTax(input.annual_taxable, 1)))

\* main of cn_tax.py on the salary, the city and the deductions typed in: the
\* results it passes to print_tax_details.
CnMain ==
  Call("cn_main", "main",
       calculate_tax(input.monthly_salary, MainDeductions(input.city, input.deductions)))

\* The table the loop followed step by step goes over.
LoopBrackets ==
  IF input.prog = "us_federal_loop" THEN FEDERAL_BRACKETS[input.filing_status]
  ELSE CA_BRACKETS[input.filing_status]

\* Lines 103-107 of calculate_federal_tax (lines 120-124 of
\* calculate_ca_state_tax): the locals before the loop.  taxed records the
\* taxable_amount of every iteration so far.
LoopStart(prog, name, taxable_income) ==
  /\ pc = "start"
  /\ input.prog = prog
  /\ pc' = "loop"
  /\ fn' = name
  /\ result' = [err |-> "none", i |-> 1, taxable_income |-> taxable_income,
                remaining_income |-> taxable_income, total_tax |-> 0, taxed |-> << >>]
  /\ UNCHANGED input

FederalLoopStart ==
  LoopStart("us_federal_loop", "calculate_federal_tax_loop",
            TaxableIncome(input.income, STANDARD_DEDUCTION[input.filing_status]))

CaLoopStart ==
  LoopStart("us_ca_loop", "calculate_ca_state_tax_loop",
            TaxableIncome(input.income + input.capital_gains,
                          CA_STANDARD_DEDUCTION[input.filing_status]))

\* One iteration of the loop (us_tax.py lines 109-114, 126-131).
BracketLoopStep ==
  /\ pc = "loop"
  /\ result.i <= Len(LoopBrackets)
  /\ result.remaining_income > 0
  /\ LET bracket == LoopBrackets[result.i]
         taxable_amount == TaxableAmount(result.remaining_income, bracket)
     IN  result' = [result EXCEPT !.i = @ + 1,
                                  !.total_tax = @ + taxable_amount * bracket.rate,
                                  !.remaining_income = @ - taxable_amount,
                                  !.taxed = Append(@, taxable_amount)]
  /\ UNCHANGED <<pc, fn, input>>

\* The loop ends, by the break or with the table, and total_tax is returned
\* (us_tax.py lines 110-111 and 116, 127-128 and 133).
BracketLoopReturn ==
  /\ pc = "loop"
  /\ result.i > Len(LoopBrackets) \/ result.remaining_income <= 0
  /\ pc' = "done"
  /\ result' = [result EXCEPT !.err = "ok"]
  /\ UNCHANGED <<fn, input>>

Next ==
  \/ CalculateFederalTax
  \/ CalculateCaStateTax
  \/ CalculateFicaTaxes
  \/ CalculateCaSdi
  \/ CalculateCapitalGainsTax
  \/ CalculateMarginalRates
  \/ CalculateTaxResults
  \/ CalculateSocialInsurance
  \/ CnCalculateMarginalRates
  \/ CalculateTax
  \/ CalculateIncomeTax
  \/ CnMain
  \/ FederalLoopStart
  \/ CaLoopStart
  \/ BracketLoopStep
  \/ BracketLoopReturn

Spec == Init /\ [][Next]_vars

(***************************************************************************)
(* Properties.                                                             *)
(***************************************************************************)
Returned(name) == pc = "done" /\ fn = name /\ result.err = "ok"

\* The highest rate of a table.
MaxRate(brackets) ==
  LET rates == {brackets[i].rate : i \in 1..Len(brackets)}
  IN  CHOOSE r \in rates : \A q \in rates : q <= r

\* The contributions (upper - lower) * rate of the first n brackets of a table.
RECURSIVE FullBrackets(_, _)
FullBrackets(brackets, n) ==
  IF n = 0 THEN 0
  ELSE FullBrackets(brackets, n - 1)
       + (brackets[n].upper - brackets[n].lower) * brackets[n].rate

\* The sum of (upper - lower) * rate over the brackets whose upper is <= b.
LowerBracketsSum(brackets, b) ==
  FullBrackets(brackets, Cardinality({i \in 1..Len(brackets) : brackets[i].upper <= b}))

\* The bracket of a table that starts at the amount b.
BracketFrom(brackets, b) ==
  brackets[CHOOSE i \in 1..Len(brackets) : brackets[i].lower = b]

\* C1 (federal): calculate_federal_tax is non-decreasing in the income, hence in
\* the taxable amount max(0, income - deduction), and one more unit of income
\* adds at least 0 and at most one unit at the table's highest rate.
C1_FederalMonotone ==
  Returned("calculate_federal_tax") =>
    LET s == input.filing_status
        x == input.income
    IN  /\ \A y \in USIncomes :
             y >= x => calculate_federal_tax(y, s).val >= result.val
        /\ calculate_federal_tax(x + 1, s).val - result.val >= 0
        /\ calculate_federal_tax(x + 1, s).val - result.val
             <= MaxRate(FEDERAL_BRACKETS[s])

\* C1 (California): the same of calculate_ca_state_tax, the capital gains fixed.
C1_CaliforniaMonotone ==
  Returned("calculate_ca_state_tax") =>
    LET s == input.filing_status
        g == input.capital_gains
        x == input.income
    IN  /\ \A y \in USIncomes :
             y >= x => calculate_ca_state_tax(y, g, s).val >= result.val
        /\ calculate_ca_state_tax(x + 1, g, s).val - result.val >= 0
        /\ calculate_ca_state_tax(x + 1, g, s).val - result.val
             <= MaxRate(CA_BRACKETS[s])

\* C1 (CN): the same of the bracket loop of calculate_tax over the annual table.
C1_CnMonotone ==
  Returned("IncomeTax") =>
    LET x == input.annual_taxable
    IN  /\ \A y \in CNAnnualAmounts : y >= x => IncomeTax(y, 1) >= result.val
        /\ IncomeTax(x + 1, 1) - result.val >= 0
        /\ IncomeTax(x + 1, 1) - result.val <= MaxRate(TAX_BRACKETS)

\* C1: for every configured bracket table and all taxable amounts x <= y the
\* liability at x is at most the liability at y, and the liability has no jump:
\* liability(x + 1) - liability(x) is between 0 and one unit at the highest rate.
C1_LiabilityMonotoneNoJump ==
  C1_FederalMonotone /\ C1_CaliforniaMonotone /\ C1_CnMonotone

\* C1 witness: the federal tax of a single filer whose taxable amount is the
\* second boundary, 47150, then crossing into the 22% bracket.
C1_Witness ==
  /\ Returned("calculate_federal_tax")
  /\ input.filing_status = "single"
  /\ input.income = STANDARD_DEDUCTION.single + 47150
  /\ calculate_federal_tax(input.income + 1, "single").val - result.val = 440

\* The taxable amount of a call of calculate_federal_tax / calculate_ca_state_tax.
FederalTaxable == input.income - STANDARD_DEDUCTION[input.filing_status]

CaliforniaTaxable ==
  input.income + input.capital_gains - CA_STANDARD_DEDUCTION[input.filing_status]

\* C2: for every configured bracket table and every taxable amount equal to a
\* bracket boundary b, the liability is the sum of (upper - lower) * rate over
\* the brackets whose upper is <= b: the bracket starting at b adds nothing.
C2_BoundaryLiability ==
  /\ Returned("calculate_federal_tax")
       /\ FederalTaxable \in Boundaries(FEDERAL_BRACKETS[input.filing_status])
     => result.val = LowerBracketsSum(FEDERAL_BRACKETS[input.filing_status], FederalTaxable)
  /\ Returned("calculate_ca_state_tax")
       /\ CaliforniaTaxable \in Boundaries(CA_BRACKETS[input.filing_status])
     => result.val = LowerBracketsSum(CA_BRACKETS[input.filing_status], CaliforniaTaxable)
  /\ Returned("IncomeTax") /\ input.annual_taxable \in Boundaries(TAX_BRACKETS)
     => result.val = LowerBracketsSum(TAX_BRACKETS, input.annual_taxable)

\* C2 witness: the California tax of a married filer whose taxable amount is
\* the boundary 49368: 20824 at 1% and 28544 at 2%, nothing at 4%.
C2_Witness ==
  /\ Returned("calculate_ca_state_tax")
  /\ input.filing_status = "married"
  /\ CaliforniaTaxable = 49368
  /\ result.val = 20824 * 20 + 28544 * 40

\* C3: the marginal-rate lookups, given an income equal to a boundary between
\* two brackets, return the rate of the higher bracket, the one whose lower
\* bound is that income.
C3_BoundaryTakesHigherRate ==
  /\ Returned("calculate_marginal_rates")
     => LET s == input.filing_status
            x == input.income
        IN  /\ x \in Boundaries(FEDERAL_BRACKETS[s])
               => result.val.federal = BracketFrom(FEDERAL_BRACKETS[s], x).rate
            /\ x \in Boundaries(CA_BRACKETS[s])
               => result.val.california = BracketFrom(CA_BRACKETS[s], x).rate
  /\ Returned("cn_calculate_marginal_rates")
       /\ input.monthly_salary * 12 \in Boundaries(TAX_BRACKETS)
     => result.val.tax = BracketFrom(TAX_BRACKETS, input.monthly_salary * 12).rate
                         * (RATE_DEN \div CN_RATE_DEN)

\* Whether the tax bases a and a + 1 lie in one bracket of the table, the unit
\* between them taxed at that bracket's rate.
SameBracket(brackets, a) ==
  \E i \in 1..Len(brackets) : brackets[i].lower <= a /\ a + 1 <= brackets[i].upper

\* C4: for every filing status and income x >= 0 whose tax bases at x and x + 1
\* lie in one bracket, the federal rate of calculate_marginal_rates is
\* calculate_federal_tax(x + 1) - calculate_federal_tax(x), and the California
\* rate is the same difference of calculate_ca_state_tax.
C4_MarginalRateIsNextUnitRate ==
  Returned("calculate_marginal_rates") /\ input.income >= 0 =>
    LET s == input.filing_status
        x == input.income
    IN  /\ SameBracket(FEDERAL_BRACKETS[s], x - STANDARD_DEDUCTION[s])
           => result.val.federal
                = calculate_federal_tax(x + 1, s).val - calculate_federal_tax(x, s).val
        /\ SameBracket(CA_BRACKETS[s], x - CA_STANDARD_DEDUCTION[s])
           => result.val.california
                = calculate_ca_state_tax(x + 1, 0, s).val
                  - calculate_ca_state_tax(x, 0, s).val

\* The functions of us_tax.py that take an income, and those of cn_tax.py that
\* take a monthly salary; the functions that take a filing status.
IncomeFunctions ==
  {"calculate_federal_tax", "calculate_ca_state_tax", "calculate_marginal_rates",
   "calculate_tax_results"}

SalaryFunctions == {"calculate_tax", "cn_calculate_marginal_rates"}

StatusFunctions ==
  {"calculate_federal_tax", "calculate_ca_state_tax", "calculate_capital_gains_tax",
   "calculate_marginal_rates"}

\* C5: a negative gross income, taxable amount or lookup income is rejected
\* with an InvalidInput error, no tax figure or marginal rate being produced.
C5_NegativeIncomeRejected ==
  /\ pc = "done" /\ fn \in IncomeFunctions /\ input.income < 0
       /\ input.filing_status \in FilingStatuses
     => result = Raise("InvalidInput")
  /\ pc = "done" /\ fn \in SalaryFunctions /\ input.monthly_salary < 0
     => result = Raise("InvalidInput")

\* C6 as stated: a call with a filing status the tables do not have fails with
\* an UnknownFilingStatus error.
C6_UnknownFilingStatusError ==
  pc = "done" /\ fn \in StatusFunctions /\ input.filing_status \notin FilingStatuses
    /\ input.income >= 0
  => result.err = "UnknownFilingStatus"

\* C6 amended: a call of calculate_federal_tax, calculate_ca_state_tax,
\* calculate_capital_gains_tax or calculate_marginal_rates with a filing status
\* other than single and married fails with the KeyError of the table lookup
\* and returns no result; with single or married it returns a result.
C6_UnknownFilingStatusKeyError ==
  pc = "done" /\ fn \in StatusFunctions
  => IF input.filing_status \in FilingStatuses
     THEN result.err = "ok"
     ELSE result = Raise("KeyError")

\* C6 witness: calculate_capital_gains_tax called for a head of household.
C6_Witness ==
  /\ pc = "done"
  /\ fn = "calculate_capital_gains_tax"
  /\ input.filing_status = "head_of_household"
  /\ input.capital_gains > 0
  /\ result.err = "KeyError"

\* Whether one of the six deductions is negative.
HasNegativeDeduction(deductions) ==
  \E f \in DOMAIN deductions : deductions[f] < 0

\* C7: calculate_tax with a negative deduction fails with InvalidInput; a
\* negative deduction never increases the taxable income or the tax.
C7_NegativeDeductionRejected ==
  pc = "done" /\ fn = "calculate_tax" /\ HasNegativeDeduction(input.deductions)
    /\ input.monthly_salary >= 0
  => result = Raise("InvalidInput")

\* clamp(x, lo, hi), by cases.
Clamp(x, lo, hi) == IF x < lo THEN lo ELSE IF x > hi THEN hi ELSE x

\* The rates of the personal and of the employer contributions, in 1/RATE_DEN.
PersonalRates ==
  [pension |-> 160, medical |-> 40, unemployment |-> 10, housing_fund |-> 240]

EmployerRates ==
  [pension |-> 320, medical |-> 190, unemployment |-> 10, injury |-> 8,
   maternity |-> 16, housing_fund |-> 240]

RECURSIVE SumOver(_, _)
SumOver(f, keys) ==
  IF keys = {} THEN 0
  ELSE LET k == CHOOSE k \in keys : TRUE IN f[k] + SumOver(f, keys \ {k})

\* C8: calculate_social_insurance uses base = clamp(monthly_salary, 3613, 31884),
\* so 3613 <= base <= 31884 and base = 3613 below the floor; every personal and
\* employer component is base times its rate; each total is the sum of its
\* components.
C8_SocialInsuranceClampedBase ==
  Returned("calculate_social_insurance") =>
    LET r == result.val
    IN  /\ r.base = Clamp(input.monthly_salary, 3613, 31884)
        /\ 3613 <= r.base /\ r.base <= 31884
        /\ input.monthly_salary < 3613 => r.base = 3613
        /\ DOMAIN r.personal = DOMAIN PersonalRates \cup {"total"}
        /\ DOMAIN r.employer = DOMAIN EmployerRates \cup {"total"}
        /\ \A k \in DOMAIN PersonalRates : r.personal[k] = r.base * PersonalRates[k]
        /\ \A k \in DOMAIN EmployerRates : r.employer[k] = r.base * EmployerRates[k]
        /\ r.personal.total = SumOver(r.personal, DOMAIN PersonalRates)
        /\ r.employer.total = SumOver(r.employer, DOMAIN EmployerRates)

\* C8 witness: a salary below the floor pays on the floor.
C8_Witness ==
  /\ Returned("calculate_social_insurance")
  /\ input.monthly_salary = 3612
  /\ result.val.base = 3613
  /\ result.val.personal.total = 3613 * 450

\* C9 (CN): every personal and employer contribution and both totals are
\* non-decreasing in the salary and, from the ceiling 31884 on, are the ceiling
\* times the rate.
C9_CnContributionsSaturate ==
  Returned("calculate_social_insurance") =>
    LET r == result.val
        x == input.monthly_salary
    IN  /\ \A y \in CNSalaries : y >= x =>
             LET q == calculate_social_insurance(y).val
             IN  /\ \A k \in DOMAIN r.personal : q.personal[k] >= r.personal[k]
                 /\ \A k \in DOMAIN r.employer : q.employer[k] >= r.employer[k]
        /\ x >= 31884 =>
             /\ \A k \in DOMAIN PersonalRates : r.personal[k] = 31884 * PersonalRates[k]
             /\ \A k \in DOMAIN EmployerRates : r.employer[k] = 31884 * EmployerRates[k]
             /\ r.personal.total = 31884 * 450
             /\ r.employer.total = 31884 * 784
             /\ r = calculate_social_insurance(x + 1).val

\* C9 (US): the social-security tax and the SDI are non-decreasing in the
\* income and, from their ceilings 168600 and 153164 on, are the ceiling times
\* the rate (6.2%, 0.9%).
C9_UsContributionsSaturate ==
  /\ Returned("calculate_fica_taxes") =>
       LET x == input.income
       IN  /\ \A y \in USIncomes : y >= x =>
                calculate_fica_taxes(y).val.social_security >= result.val.social_security
           /\ x >= 168600 =>
                /\ result.val.social_security = 168600 * 124
                /\ calculate_fica_taxes(x + 1).val.social_security
                     = result.val.social_security
  /\ Returned("calculate_ca_sdi") =>
       LET x == input.income
       IN  /\ \A y \in USIncomes : y >= x => calculate_ca_sdi(y).val >= result.val
           /\ x >= 153164 =>
                /\ result.val = 153164 * 18
                /\ calculate_ca_sdi(x + 1).val = result.val

\* C9: every capped-base contribution is non-decreasing in the gross income and
\* is constant, ceiling * rate, for every income >= the ceiling; the
\* contribution at the ceiling is the contribution at the ceiling + 1.
C9_CappedContributionsSaturate ==
  C9_CnContributionsSaturate /\ C9_UsContributionsSaturate

\* C9 witness: the SDI of an income one unit above its ceiling.
C9_Witness ==
  /\ Returned("calculate_ca_sdi")
  /\ input.income = SDI_LIMIT + 1
  /\ result.val = SDI_LIMIT * 18

\* C10: the marginal rate reported for a capped-base levy is the levy's rate
\* exactly when floor <= income < ceiling and 0 otherwise: in cn_tax the
\* insurance and housing-fund rates are non-zero only for
\* 3613 <= monthly_salary < 31884; in us_tax the 6.2% is part of the FICA rate
\* only for income < 168600 and the SDI rate is 0.9% only for income < 153164.
C10_CappedLevyMarginalRate ==
  /\ Returned("cn_calculate_marginal_rates") /\ input.monthly_salary >= 0 =>
       LET x == input.monthly_salary
           inside == 3613 <= x /\ x < 31884
       IN  /\ result.val.insurance = (IF inside THEN 210 ELSE 0)
           /\ result.val.housing_fund = (IF inside THEN 240 ELSE 0)
  /\ Returned("calculate_marginal_rates") /\ input.income >= 0 =>
       LET x == input.income
           medicare == 29 + (IF x > 200000 THEN 18 ELSE 0)
       IN  /\ result.val.fica - medicare = (IF x < 168600 THEN 124 ELSE 0)
           /\ result.val.sdi = (IF x < 153164 THEN 18 ELSE 0)


\* C11: the additional Medicare amount of calculate_fica_taxes is
\* max(0, income - 200000) * 0.009 with no upper cap: 0 up to and at 200000,
\* and 0.009 more for every further unit of income.
C11_AdditionalMedicareUncapped ==
  Returned("calculate_fica_taxes") =>
    LET x == input.income
        over == IF x - 200000 > 0 THEN x - 200000 ELSE 0
    IN  /\ result.val.additional_medicare = over * 18
        /\ x <= 200000 => result.val.additional_medicare = 0
        /\ x >= 200000 =>
             calculate_fica_taxes(x + 1).val.additional_medicare
               = result.val.additional_medicare + 18

\* C11 witness: an income far above the threshold and above every ceiling.
C11_Witness ==
  /\ Returned("calculate_fica_taxes")
  /\ input.income = 1396544
  /\ result.val.additional_medicare = 1196544 * 18


\* C12: calculate_tax reports taxable_income = monthly_salary - 5000 - personal
\* insurance total - the sum of the six special deductions, unclamped (it may be
\* negative), while the tax is the bracket evaluation of that value clamped to
\* >= 0 (amounts in 1/CN_UNIT yuan; insurance totals in 1/RATE_DEN yuan).
C12_TaxableIncomeUnclamped ==
  Returned("calculate_tax") =>
    LET d == input.deductions
        six == d.housing_rent + d.housing_loan + d.children_edu
               + d.continuing_edu + d.elderly_care + d.medical_expense
        expected == input.monthly_salary * CN_UNIT - 5000 * CN_UNIT
                    - result.val.insurance.personal.total \div (RATE_DEN \div CN_UNIT)
                    - six * CN_UNIT
    IN  /\ result.val.insurance.personal.total % (RATE_DEN \div CN_UNIT) = 0
        /\ result.val.taxable_income = expected
        /\ result.val.tax = TaxLoop(1, Max(0, expected) * 12, CN_UNIT, 0)

\* C12 witness: a salary of 5000 with the standard deductions has a negative
\* reported taxable income, and no tax.
C12_Witness ==
  /\ Returned("calculate_tax")
  /\ input.monthly_salary = 5000
  /\ input.deductions.housing_rent = 1500
  /\ input.deductions.elderly_care = 2000
  /\ result.val.taxable_income = (0 - 5900) * CN_UNIT - 5000 * 9
  /\ result.val.tax = 0


\* The sum of the configured per-item caps, with the rent limit of the city.
CapsTotal(rent_limit) ==
  rent_limit + HOUSING_LOAN + CHILDREN_EDU + CONTINUING_EDU + ELDERLY_CARE

\* C13: the five capped itemized deductions (rent, loan, children education,
\* continuing education, elderly care) never take more than the sum of their
\* caps off the taxable base, whether calculate_tax is called directly (the rent
\* limit being at most that of a first-tier city) or through main (the rent
\* limit being that of the city).  Stated for non-negative salaries and
\* deductions.
C13_DeductionsWithinCaps ==
  /\ (Returned("calculate_tax") /\ input.monthly_salary >= 0
        /\ ~HasNegativeDeduction(input.deductions))
     => result.val.special_deductions - input.deductions.medical_expense
          <= CapsTotal(RENT_TIER_1)
  /\ (Returned("main") /\ input.monthly_salary >= 0
        /\ ~HasNegativeDeduction(input.deductions))
     => result.val.special_deductions - input.deductions.medical_expense
          <= CapsTotal(get_rent_deduction_limit(input.city))


\* C14: a taxable base <= 0 gives an income tax of exactly 0, and no income
\* tax is ever negative: calculate_federal_tax for an income at or below the
\* standard deduction, calculate_ca_state_tax for income plus capital gains at
\* or below the California standard deduction, calculate_tax for a
\* taxable_income <= 0.
C14_NoTaxOnEmptyBase ==
  /\ Returned("calculate_federal_tax") =>
       /\ result.val >= 0
       /\ input.income <= STANDARD_DEDUCTION[input.filing_status] => result.val = 0
  /\ Returned("calculate_ca_state_tax") =>
       /\ result.val >= 0
       /\ input.income + input.capital_gains
            <= CA_STANDARD_DEDUCTION[input.filing_status] => result.val = 0
  /\ Returned("calculate_tax") =>
       /\ result.val.tax >= 0
       /\ result.val.taxable_income <= 0 => result.val.tax = 0

\* C14 witness: a married filer whose income is exactly the standard
\* deduction owes no federal tax.
C14_Witness ==
  /\ Returned("calculate_federal_tax")
  /\ input.filing_status = "married"
  /\ input.income = 29200
  /\ result.val = 0


\* C15: in every TaxResult of calculate_tax_results, for both filing statuses,
\* total_tax = federal_tax + capital_gains_tax + ca_tax + fica_taxes['total']
\* + sdi_tax, and the FICA total = social_security + medicare +
\* additional_medicare.
C15_TotalTaxIsSumOfParts ==
  Returned("calculate_tax_results") =>
    \A s \in {"single", "married"} :
      LET r == result.val[s]
      IN  /\ r.total_tax = r.federal_tax + r.capital_gains_tax + r.ca_tax
                           + r.fica_taxes.total + r.sdi_tax
          /\ r.fica_taxes.total = r.fica_taxes.social_security + r.fica_taxes.medicare
                                  + r.fica_taxes.additional_medicare

\* C15 witness: an income of 1396544 with capital gains, where all five taxes
\* and all three FICA parts are positive for both statuses.
C15_Witness ==
  /\ Returned("calculate_tax_results")
  /\ input.income = 1396544
  /\ input.capital_gains = 50000
  /\ \A s \in {"single", "married"} :
       /\ result.val[s].federal_tax > 0
       /\ result.val[s].capital_gains_tax > 0
       /\ result.val[s].ca_tax > 0
       /\ result.val[s].sdi_tax > 0
       /\ result.val[s].fica_taxes.additional_medicare > 0

\* C16: money is conserved.  US, both statuses: net_income + total_tax +
\* actual_401k = annual_income + capital_gains.  CN: net_income + tax +
\* personal insurance total = monthly_salary.  (net_income is whole +
\* frac / den; the taxes are in 1/den.)
C16_MoneyConserved ==
  /\ Returned("calculate_tax_results") =>
       \A s \in {"single", "married"} :
         LET r == result.val[s]
             fine == r.net_income.frac + r.total_tax
         IN  /\ r.net_income.frac \in 0..(RATE_DEN - 1)
             /\ fine % RATE_DEN = 0
             /\ r.net_income.whole + fine \div RATE_DEN
                  + Actual401k(input.income, input.maximize_401k)
                = input.income + input.capital_gains
  /\ Returned("calculate_tax") =>
       LET r == result.val
           den == 12 * CN_UNIT * CN_RATE_DEN
           fine == r.net_income.frac + r.tax
                   + r.insurance.personal.total * (den \div RATE_DEN)
       IN  /\ r.net_income.frac \in 0..(den - 1)
           /\ fine % den = 0
           /\ r.net_income.whole + fine \div den = input.monthly_salary

\* C16 witness: a 401(k) contribution, capital gains and taxes all present.
C16_Witness ==
  /\ Returned("calculate_tax_results")
  /\ input.income = 1396544
  /\ input.capital_gains = 50000
  /\ input.maximize_401k
  /\ result.val["single"].total_tax > 0
  /\ result.val["single"].net_income.whole < 1446544 - 23000


\* C17: the combined marginal rate is the plain sum of the component rates:
\* US total = federal + california + fica + sdi, CN total = tax + insurance +
\* housing_fund.
C17_TotalRateIsSum ==
  /\ Returned("calculate_marginal_rates") =>
       result.val.total = result.val.federal + result.val.california
                          + result.val.fica + result.val.sdi
  /\ Returned("cn_calculate_marginal_rates") =>
       result.val.total = result.val.tax + result.val.insurance
                          + result.val.housing_fund

\* C17 witness: a single filer at the SDI ceiling, all four rates positive:
\* 0.24 + 0.093 + 0.0765 + 0.009 = 0.4185.
C17_Witness ==
  /\ Returned("calculate_marginal_rates")
  /\ input.income = SDI_LIMIT
  /\ input.filing_status = "single"
  /\ result.val.sdi = 18
  /\ result.val.total = 837


\* A bracket table is well-formed: not empty, the first lower bound is 0, every
\* bracket is below its upper bound, each lower bound is the previous upper
\* bound, the last upper bound is +infinity, every rate (in 1/den) is in [0, 1].
WellFormed(table, den) ==
  /\ Len(table) >= 1
  /\ table[1].lower = 0
  /\ table[Len(table)].upper = INF
  /\ \A i \in 1..Len(table) :
       /\ table[i].lower < table[i].upper
       /\ 0 <= table[i].rate /\ table[i].rate <= den
       /\ i < Len(table) => table[i].upper < INF
  /\ \A i \in 1..(Len(table) - 1) : table[i + 1].lower = table[i].upper

\* C18: every bracket table the code configures is well-formed: the federal,
\* California and capital-gains table of the filing status a function is
\* called with, and the CN annual table.
C18_BracketTablesWellFormed ==
  /\ Returned("calculate_federal_tax") =>
       WellFormed(FEDERAL_BRACKETS[input.filing_status], RATE_DEN)
  /\ Returned("calculate_ca_state_tax") =>
       WellFormed(CA_BRACKETS[input.filing_status], RATE_DEN)
  /\ Returned("calculate_capital_gains_tax") =>
       WellFormed(CAPITAL_GAINS_BRACKETS[input.filing_status], RATE_DEN)
  /\ Returned("calculate_tax") => WellFormed(TAX_BRACKETS, CN_RATE_DEN)
  /\ DOMAIN FEDERAL_BRACKETS = FilingStatuses
  /\ DOMAIN CA_BRACKETS = FilingStatuses
  /\ DOMAIN CAPITAL_GAINS_BRACKETS = FilingStatuses

\* C18 witness: calculate_tax has gone through the seven brackets of the CN
\* table for a salary taxed in the last one.
C18_Witness ==
  /\ Returned("calculate_tax")
  /\ Len(TAX_BRACKETS) = 7
  /\ result.val.taxable_income * 12 > TAX_BRACKETS[7].lower * CN_UNIT
  /\ result.val.tax > 0


\* C19 as stated: calculate_federal_tax(60000, 'single') is 5426, the whole
\* of the 10% and 12% brackets.
C19_WorkedExampleWholeBracket ==
  (Returned("calculate_federal_tax") /\ input.income = 60000
     /\ input.filing_status = "single")
  => result.val = 5426 * RATE_DEN

\* C19: for a single filer with income 60000 the taxable base is 45400, and
\* calculate_federal_tax(60000, 'single') takes the 12% bracket only up to the
\* base: 11600 * 0.10 + (45400 - 11600) * 0.12 = 1160 + 4056 = 5216.
C19_WorkedExamplePartBracket ==
  (Returned("calculate_federal_tax") /\ input.income = 60000
     /\ input.filing_status = "single")
  => /\ TaxableIncome(input.income, STANDARD_DEDUCTION[input.filing_status]) = 45400
     /\ result.val = 11600 * 200 + (45400 - 11600) * 240
     /\ result.val = 5216 * RATE_DEN

\* C19 witness: the call of the worked example has returned 5216.
C19_Witness ==
  /\ Returned("calculate_federal_tax")
  /\ input.income = 60000
  /\ input.filing_status = "single"
  /\ result.val = 5216 * RATE_DEN


\* The liability of the annual table TAX_BRACKETS on a positive annual amount a
\* (in 1/CN_UNIT yuan), applied by hand: the brackets below the one a falls in,
\* in full, and the part of a above that bracket's lower bound at its rate.
\* In 1/(CN_UNIT * CN_RATE_DEN) yuan.
AnnualLiability(a) ==
  LET k == CHOOSE i \in 1..Len(TAX_BRACKETS) :
             /\ TAX_BRACKETS[i].lower * CN_UNIT < a
             /\ TAX_BRACKETS[i].upper = INF \/ a <= TAX_BRACKETS[i].upper * CN_UNIT
  IN  FullBrackets(TAX_BRACKETS, k - 1) * CN_UNIT
      + (a - TAX_BRACKETS[k].lower * CN_UNIT) * TAX_BRACKETS[k].rate

\* C20: for every monthly salary with positive taxable income the monthly tax
\* of calculate_tax is the liability of the annual table at 12 * taxable_income,
\* divided by 12 (the tax is in 1/(12 * CN_UNIT * CN_RATE_DEN) yuan, so the
\* division by 12 is the change of unit).
C20_MonthlyTaxIsAnnualOverTwelve ==
  (Returned("calculate_tax") /\ result.val.taxable_income > 0)
  => result.val.tax = AnnualLiability(12 * result.val.taxable_income)

\* C20 witness: salary 20000 without deductions: taxable income 10500, annual
\* 126000, annual tax 36000 * 0.03 + 90000 * 0.10 = 10080, monthly tax 840.
C20_Witness ==
  /\ Returned("calculate_tax")
  /\ input.monthly_salary = 20000
  /\ input.deductions = SpecialDeductions
  /\ result.val.taxable_income = 10500 * CN_UNIT
  /\ result.val.tax = 840 * 12 * CN_UNIT * CN_RATE_DEN


\* The loop of calculate_tax (cn_tax.py lines 187-190) run over any table, from
\* bracket i on, for an amount in whole units.
RECURSIVE CnLoopOn(_, _, _, _)
CnLoopOn(brackets, i, amount, tax) ==
  IF i > Len(brackets) THEN tax
  ELSE CnLoopOn(brackets, i + 1, amount, tax + TaxPart(amount, brackets[i], 1))

\* C21: the two bracket algorithms agree on every configured table and every
\* taxable amount >= 0: what the US loop returned for the federal and the
\* California table is what the CN loop gives on that table, what the CN loop
\* returned for the CN table is what the US loop gives on it, and both give the
\* same on the capital-gains tables.
C21_LoopsAgree ==
  /\ Returned("calculate_federal_tax") =>
       LET t == TaxableIncome(input.income, STANDARD_DEDUCTION[input.filing_status])
       IN  result.val = CnLoopOn(FEDERAL_BRACKETS[input.filing_status], 1, t, 0)
  /\ Returned("calculate_ca_state_tax") =>
       LET t == TaxableIncome(input.income + input.capital_gains,
                              CA_STANDARD_DEDUCTION[input.filing_status])
       IN  result.val = CnLoopOn(CA_BRACKETS[input.filing_status], 1, t, 0)
  /\ (Returned("IncomeTax") /\ input.annual_taxable >= 0) =>
       result.val = BracketLoop(TAX_BRACKETS, 1, input.annual_taxable, 0)
  /\ (Returned("calculate_capital_gains_tax") /\ input.income >= 0) =>
       BracketLoop(CAPITAL_GAINS_BRACKETS[input.filing_status], 1, input.income, 0)
         = CnLoopOn(CAPITAL_GAINS_BRACKETS[input.filing_status], 1, input.income, 0)

\* C21 witness: the CN loop has taxed an amount in the last bracket of its
\* table, all seven brackets taking part.
C21_Witness ==
  /\ Returned("IncomeTax")
  /\ input.annual_taxable = 960001
  /\ result.val = FullBrackets(TAX_BRACKETS, 6) + 45
  /\ result.val = BracketLoop(TAX_BRACKETS, 1, 960001, 0)


\* The functions whose bracket loop is followed one iteration at a time.
LoopFunctions == {"calculate_federal_tax_loop", "calculate_ca_state_tax_loop"}

\* The sum of a sequence of amounts.
RECURSIVE SumSeq(_)
SumSeq(s) == IF s = << >> THEN 0 ELSE s[1] + SumSeq(Tail(s))

\* The part of the amount t that lies in the bracket: above lower, up to upper.
PartInBracket(t, bracket) == Max(0, Min(t, bracket.upper) - bracket.lower)

\* C22: in the bracket loop of calculate_federal_tax and
\* calculate_ca_state_tax, before and after every iteration the amounts taxed
\* so far plus remaining_income make the taxable income, remaining_income is
\* never negative, the amount a bracket taxed is at most upper - lower, and the
\* loop ends with remaining_income = 0, every bracket having taxed exactly the
\* part of the taxable income between its bounds (a unit at a bracket's upper
\* bound in that bracket): no unit taxed twice, none skipped.
C22_LoopTaxesEachUnitOnce ==
  fn \in LoopFunctions =>
    LET t == IF fn = "calculate_federal_tax_loop"
             THEN Max(0, input.income - STANDARD_DEDUCTION[input.filing_status])
             ELSE Max(0, input.income + input.capital_gains
                         - CA_STANDARD_DEDUCTION[input.filing_status])
        table == LoopBrackets
        taxed == result.taxed
    IN  /\ result.taxable_income = t
        /\ SumSeq(taxed) + result.remaining_income = t
        /\ result.remaining_income >= 0
        /\ Len(taxed) = result.i - 1
        /\ Len(taxed) <= Len(table)
        /\ \A j \in 1..Len(taxed) :
             /\ taxed[j] > 0
             /\ table[j].upper < INF => taxed[j] <= table[j].upper - table[j].lower
             /\ taxed[j] = PartInBracket(t, table[j])
        /\ pc = "done" =>
             /\ result.remaining_income = 0
             /\ \A j \in (Len(taxed) + 1)..Len(table) : PartInBracket(t, table[j]) = 0
             /\ result.total_tax
                  = (IF fn = "calculate_federal_tax_loop"
                     THEN calculate_federal_tax(input.income, input.filing_status).val
                     ELSE calculate_ca_state_tax(input.income, input.capital_gains,
                                                 input.filing_status).val)

\* C22 witness: the federal loop of a single filer has ended after taxing a
\* taxable income of exactly 47150, the upper bound of the second bracket, in
\* the first two brackets only.
C22_Witness ==
  /\ pc = "done"
  /\ fn = "calculate_federal_tax_loop"
  /\ input.filing_status = "single"
  /\ result.taxable_income = 47150
  /\ result.taxed = << 11600, 35550 >>
  /\ result.remaining_income = 0


\* a <= b for two amounts whole + frac / den of the same denominator.
MoneyLeq(a, b) == a.whole < b.whole \/ (a.whole = b.whole /\ a.frac <= b.frac)

\* C23: in calculate_tax_results, for the same capital gains and the same
\* 401(k) contribution, net_income is non-decreasing in annual_income for both
\* filing statuses: it is not lower for one more unit of income, nor for any
\* higher sampled income.  Stated for annual_income >= 0.
C23_NetIncomeMonotone ==
  (Returned("calculate_tax_results") /\ input.income >= 0) =>
    LET k == Actual401k(input.income, input.maximize_401k)
        g == input.capital_gains
    IN  \A s \in FilingStatuses :
          /\ MoneyLeq(result.val[s].net_income,
                      TaxResultFor(input.income + 1, g, k, s).net_income)
          /\ \A y \in USIncomes :
               (y >= input.income /\ Actual401k(y, input.maximize_401k) = k)
               => MoneyLeq(result.val[s].net_income, TaxResultFor(y, g, k, s).net_income)


\* C24: for every monthly_salary >= 0 and non-negative special deductions,
\* calculate_tax returns 0 <= net_income <= monthly_salary, salaries below the
\* social-insurance base floor of 3613 included.
C24_NetIncomeWithinSalary ==
  (Returned("calculate_tax") /\ input.monthly_salary >= 0
     /\ ~HasNegativeDeduction(input.deductions))
  => /\ result.val.net_income.whole >= 0
     /\ \/ result.val.net_income.whole < input.monthly_salary
        \/ /\ result.val.net_income.whole = input.monthly_salary
           /\ result.val.net_income.frac = 0


\* C25: for every annual_income >= 0, capital_gains >= 0 and 401(k) amount,
\* calculate_tax_results gives married a total_tax no greater than single, the
\* federal, capital-gains and California taxes each being no greater, and
\* fica_taxes and sdi_tax being the same for both statuses.
C25_MarriedNoMoreThanSingle ==
  (Returned("calculate_tax_results") /\ input.income >= 0 /\ input.capital_gains >= 0)
  => LET m == result.val["married"]
         s == result.val["single"]
     IN  /\ m.total_tax <= s.total_tax
         /\ m.federal_tax <= s.federal_tax
         /\ m.capital_gains_tax <= s.capital_gains_tax
         /\ m.ca_tax <= s.ca_tax
         /\ m.fica_taxes = s.fica_taxes
         /\ m.sdi_tax = s.sdi_tax

\* C25 witness: with income plus capital gains at 492301, just above the last
\* capital-gains boundary of single, the married filer pays less of each of the
\* three taxes that depend on the status.
C25_Witness ==
  /\ Returned("calculate_tax_results")
  /\ input.income = 442300 + 1
  /\ input.capital_gains = 50000
  /\ ~input.maximize_401k
  /\ result.val["married"].federal_tax < result.val["single"].federal_tax
  /\ result.val["married"].capital_gains_tax < result.val["single"].capital_gains_tax
  /\ result.val["married"].ca_tax < result.val["single"].ca_tax
  /\ result.val["married"].fica_taxes.total = result.val["single"].fica_taxes.total

====
